---- MODULE Spec2Model ----
(***************************************************************************)
(* Model of the Oracle sidecar (src/tauri/sidecar/oracle_sidecar.py): the  *)
(* PoolManager registry, the 4-thread executor running                     *)
(* _execute_query_sync, the event-loop thread running the request          *)
(* handlers and the idle reaper, and the signal / atexit shutdown path.    *)
(***************************************************************************)
EXTENDS Integers, Sequences, FiniteSets, TLC

\* ------------------------------------------------------------------------
\* Program constants
\* ------------------------------------------------------------------------
POOL_MAX == 5
POOL_TIMEOUT == 120
CLEANUP_INTERVAL == 60
MAX_WORKERS == 4

\* ------------------------------------------------------------------------
\* Bounds of the model
\* ------------------------------------------------------------------------
\* requests that arrive in one run of the program model
MaxRequests == 2
\* the wall clock advances in steps of ClockStep seconds up to MaxTime; one
\* step takes a pool used at time 0 past POOL_TIMEOUT and the reaper past its
\* first sleep
ClockStep == 130
MaxTime == 130

\* ------------------------------------------------------------------------
\* Inputs: connection configs.  Strings are sequences of characters so that
\* the key formatting is computed, not assumed injective.
\* ------------------------------------------------------------------------
Usernames == { <<"a">>, <<"a", "@", "b">> }
ConnectStrings == { <<"c">>, <<"b", "@", "c">> }
Passwords == { "pw1", "pw2" }

ConnectionConfig ==
    [username : Usernames, connect_string : ConnectStrings, password : Passwords]

\* the configs requests carry: ("a", "b@c") and ("a@b", "c") are different
\* (username, connect_string) pairs, ("a", "c") is a third
Configs ==
    { c \in ConnectionConfig :
        /\ ~(c.username = <<"a", "@", "b">> /\ c.connect_string = <<"b", "@", "c">>)
        /\ c.password = "pw1" }

\* mutant of PoolKey: the password is part of the key
PoolKeyWithPassword(config) ==
    config.username \o <<"@">> \o config.connect_string \o <<"@", config.password>>

\* f"{config.username}@{config.connect_string}"
PoolKey(config) == config.username \o <<"@">> \o config.connect_string

\* ------------------------------------------------------------------------
\* Threads: the event-loop (main) thread and the executor's workers
\* ------------------------------------------------------------------------
Main == 0
Workers == 1 .. MAX_WORKERS
Threads == {Main} \cup Workers

NoReq == [kind |-> "none"]

\* Python's None
None == [none |-> TRUE]

VARIABLES
    now,            \* wall clock, seconds
    pools,          \* PoolManager._pools      : key -> pool id
    last_used,      \* PoolManager._last_used  : key -> time
    lock,           \* PoolManager._lock       : set of holders (empty or one thread)
    poolObjs,       \* driver pool objects ever created, by id
    pc,             \* position of each thread
    req,            \* request a thread is serving
    handle,         \* pool a thread got from get_pool (0: none)
    conn,           \* thread holds a connection acquired from handle
    queue,          \* executor work queue
    arrived,        \* requests received so far
    wake,           \* time at which the reaper's sleep(60) ends
    rp_now,         \* the reaper's local `now`
    keys_to_close,  \* the reaper's local keys_to_close
    cp_key,         \* argument of the running close_pool
    sig,            \* shutdown progress: signal handler, sys.exit, atexit
    fault,          \* an exception escaped close_pool / close_all
    lastRet,        \* history: (username, connect_string) -> the pool get_pool
                    \* last returned for it and pool_count after that call
    gw_pc,          \* position of the request whose data path is followed
    gw_req,         \* its endpoint and max_rows
    gw_db,          \* what its statement yields: cursor.description, rows
    perf_counter,   \* time.perf_counter(), microseconds since the request came
    gw_local,       \* locals of _execute_query_sync
    gw_exc,         \* the exception raised to the handler, if any
    response        \* the HTTP response of the handler

vars == << now, pools, last_used, lock, poolObjs, pc, req, handle, conn, queue,
           arrived, wake, rp_now, keys_to_close, cp_key, sig, fault, lastRet,
           gw_pc, gw_req, gw_db, perf_counter, gw_local, gw_exc, response >>

\* dict helpers
EmptyMap == [k \in {} |-> 0]
MapSet(m, k, v) == [x \in DOMAIN m \cup {k} |-> IF x = k THEN v ELSE m[x]]
MapDel(m, k) == [x \in DOMAIN m \ {k} |-> m[x]]

PoolIds == 1 .. Len(poolObjs)
Registered == { pools[k] : k \in DOMAIN pools }
pool_count == Cardinality(DOMAIN pools)
KeyOf(t) == PoolKey(req[t].cfg)
PairOf(t) == << req[t].cfg.username, req[t].cfg.connect_string >>

\* A thread can take a step: the main thread is stopped while the signal
\* handler runs on its stack and after sys.exit.
Runnable(t) == t = Main => sig = "none"

\* mutant of LockFree: get_pool and the closes run without mutual exclusion
LockFreeAlways == TRUE

\* threading.Lock: acquirable only when nobody holds it (not reentrant)
LockFree == lock = {}

Init ==
    /\ now = 0
    /\ pools = EmptyMap
    /\ last_used = EmptyMap
    /\ lock = {}
    /\ poolObjs = << >>
    /\ pc = [t \in Threads |-> IF t = Main THEN "loop" ELSE "idle"]
    /\ req = [t \in Threads |-> NoReq]
    /\ handle = [t \in Threads |-> 0]
    /\ conn = [t \in Threads |-> FALSE]
    /\ queue = << >>
    /\ arrived = 0
    /\ wake = CLEANUP_INTERVAL
    /\ rp_now = 0
    /\ keys_to_close = {}
    /\ cp_key = << >>
    /\ sig = "none"
    /\ fault = FALSE
    /\ lastRet = EmptyMap
    /\ gw_pc = "idle"
    /\ gw_req = None
    /\ gw_db = None
    /\ perf_counter = 0
    /\ gw_local = None
    /\ gw_exc = None
    /\ response = None

\* ------------------------------------------------------------------------
\* Frames
\* ------------------------------------------------------------------------
clockVars == << now >>
regVars == << pools, last_used >>
threadVars == << pc, req, handle, conn >>
execVars == << queue, arrived >>
reaperVars == << wake, rp_now, keys_to_close, cp_key >>
shutVars == << sig, fault >>
histVars == << lastRet >>
gwVars == << gw_pc, gw_req, gw_db, perf_counter, gw_local, gw_exc, response >>

\* where a thread goes when its request is over
Home(t) == IF t = Main THEN "loop" ELSE "idle"

\* the request of thread t ends (result returned or exception raised to the handler)
Finish(t) ==
    /\ pc' = [pc EXCEPT ![t] = Home(t)]
    /\ req' = [req EXCEPT ![t] = NoReq]
    /\ handle' = [handle EXCEPT ![t] = 0]
    /\ conn' = [conn EXCEPT ![t] = FALSE]

\* ------------------------------------------------------------------------
\* The driver (oracledb), as the sidecar uses it
\* ------------------------------------------------------------------------
\* oracledb.create_pool(user, password, dsn, ...)
NewPool(config) ==
    [ key |-> PoolKey(config),
      user |-> config.username,
      dsn |-> config.connect_string,
      password |-> config.password,
      open |-> TRUE,
      closeCalls |-> 0,
      busy |-> 0 ]

\* pool.close(): raises while connections are checked out, and may raise
\* otherwise; `raised` is the outcome
CloseCanSucceed(objs, p) == objs[p].busy = 0
PoolClose(objs, p, raised) ==
    [objs EXCEPT ![p].closeCalls = @ + 1,
                 ![p].open = IF raised THEN @ ELSE FALSE]

\* pool.acquire() returned a connection
PoolAcquire(objs, p) == [objs EXCEPT ![p].busy = @ + 1]

\* mutant of ReleaseConn: the connection is returned only on the normal path
ReleaseConnOnSuccess(objs, p, raised) ==
    [objs EXCEPT ![p].busy = IF raised THEN @ ELSE @ - 1]

\* leaving `with pool.acquire() as conn:` returns the connection, whether the
\* block ended normally or by an exception
ReleaseConn(objs, p, raised) == [objs EXCEPT ![p].busy = @ - 1]

\* ------------------------------------------------------------------------
\* PoolManager.get_pool, run by thread t for req[t].cfg
\* ------------------------------------------------------------------------
\* mutant of HasPool: get_pool creates a pool on every call
HasPoolNever(k) == FALSE

\* `key in self._pools`
HasPool(k) == k \in DOMAIN pools

\* `with self._lock:` entered, then `if key not in self._pools`
GetPoolLock(t) ==
    /\ pc[t] = "gp_lock"
    /\ Runnable(t)
    /\ LockFree
    /\ lock' = {t}
    /\ pc' = [pc EXCEPT ![t] =
                IF HasPool(KeyOf(t)) THEN "gp_touch" ELSE "gp_create"]
    /\ UNCHANGED << clockVars, regVars, poolObjs, req, handle, conn, execVars,
                    reaperVars, shutVars, histVars, gwVars >>

\* mutant of CreateRaised: the lock is taken with acquire() / release()
\* instead of `with`, so a raise skips the release
CreateRaisedKeepsLock(t) ==
    [ pools |-> pools,
      lock |-> lock ]

\* what a raise of oracledb.create_pool leaves: the assignment to
\* self._pools[key] has not run, and the `with` releases the lock
CreateRaised(t) ==
    [ pools |-> pools,
      lock |-> lock \ {t} ]

\* oracledb.create_pool(...) returns and the pool is stored, or it raises and
\* the exception leaves get_pool through the `with`, releasing the lock
GetPoolCreate(t) ==
    /\ pc[t] = "gp_create"
    /\ Runnable(t)
    /\ \/ /\ poolObjs' = Append(poolObjs, NewPool(req[t].cfg))
          /\ pools' = MapSet(pools, KeyOf(t), Len(poolObjs) + 1)
          /\ pc' = [pc EXCEPT ![t] = "gp_touch"]
          /\ UNCHANGED << lock, req, handle, conn >>
       \/ /\ lock' = CreateRaised(t).lock
          /\ pools' = CreateRaised(t).pools
          /\ Finish(t)
          /\ UNCHANGED << poolObjs >>
    /\ UNCHANGED << clockVars, last_used, execVars, reaperVars, shutVars, histVars, gwVars >>

\* mutant of Touch: the timestamp is written only when the entry is new
TouchWhenNew(k) ==
    IF k \in DOMAIN last_used THEN last_used ELSE MapSet(last_used, k, now)

\* self._last_used[key] = datetime.now()
Touch(k) == MapSet(last_used, k, now)

\* self._last_used[key] = datetime.now(); return self._pools[key]
GetPoolTouch(t) ==
    /\ pc[t] = "gp_touch"
    /\ Runnable(t)
    /\ KeyOf(t) \in DOMAIN pools
    /\ last_used' = Touch(KeyOf(t))
    /\ handle' = [handle EXCEPT ![t] = pools[KeyOf(t)]]
    /\ lock' = lock \ {t}
    /\ pc' = [pc EXCEPT ![t] = "acquire"]
    /\ lastRet' = MapSet(lastRet, PairOf(t),
                         [pool |-> pools[KeyOf(t)], count |-> pool_count])
    /\ UNCHANGED << clockVars, pools, poolObjs, req, conn, execVars, reaperVars,
                    shutVars, gwVars >>

\* ------------------------------------------------------------------------
\* The body shared by _execute_query_sync and test_connection after get_pool
\* ------------------------------------------------------------------------
\* pool.acquire(): POOL_GETMODE_WAIT blocks while all POOL_MAX connections are
\* out; a closed pool raises; otherwise a connection, or a driver error
Acquire(t) ==
    /\ pc[t] = "acquire"
    /\ Runnable(t)
    /\ \/ /\ poolObjs[handle[t]].open
          /\ poolObjs[handle[t]].busy < POOL_MAX
          /\ poolObjs' = PoolAcquire(poolObjs, handle[t])
          /\ conn' = [conn EXCEPT ![t] = TRUE]
          /\ pc' = [pc EXCEPT ![t] = "execute"]
          /\ UNCHANGED << req, handle >>
       \/ /\ ~poolObjs[handle[t]].open \/ poolObjs[handle[t]].busy < POOL_MAX
          /\ Finish(t)
          /\ UNCHANGED poolObjs
    /\ UNCHANGED << clockVars, regVars, lock, execVars, reaperVars, shutVars,
                    histVars, gwVars >>

\* conn.cursor(); cursor.execute(sql)
Execute(t) ==
    /\ pc[t] = "execute"
    /\ Runnable(t)
    /\ \/ /\ pc' = [pc EXCEPT ![t] = "fetch"]
          /\ UNCHANGED << poolObjs, req, handle, conn >>
       \/ /\ poolObjs' = ReleaseConn(poolObjs, handle[t], TRUE)
          /\ Finish(t)
    /\ UNCHANGED << clockVars, regVars, lock, execVars, reaperVars, shutVars,
                    histVars, gwVars >>

\* fetchmany / fetchall / fetchone, value conversion, then the `with` exit
Fetch(t) ==
    /\ pc[t] = "fetch"
    /\ Runnable(t)
    /\ \E raised \in BOOLEAN :
          poolObjs' = ReleaseConn(poolObjs, handle[t], raised)
    /\ Finish(t)
    /\ UNCHANGED << clockVars, regVars, lock, execVars, reaperVars, shutVars,
                    histVars, gwVars >>

\* ------------------------------------------------------------------------
\* Request arrival
\* ------------------------------------------------------------------------
\* /query and /query-dict: loop.run_in_executor(_db_executor, ...)
Submit(config, kind, bound) ==
    /\ pc[Main] = "loop"
    /\ Runnable(Main)
    /\ arrived < bound
    /\ arrived' = arrived + 1
    /\ queue' = Append(queue, [kind |-> kind, cfg |-> config])
    /\ UNCHANGED << clockVars, regVars, lock, poolObjs, threadVars, reaperVars,
                    shutVars, histVars, gwVars >>

\* a free executor thread takes the next work item
WorkerStart(w) ==
    /\ pc[w] = "idle"
    /\ queue # << >>
    /\ \A v \in Workers : v < w => pc[v] # "idle"
    /\ req' = [req EXCEPT ![w] = Head(queue)]
    /\ queue' = Tail(queue)
    /\ pc' = [pc EXCEPT ![w] = "gp_lock"]
    /\ UNCHANGED << clockVars, regVars, lock, poolObjs, handle, conn, arrived,
                    reaperVars, shutVars, histVars, gwVars >>

\* /test-connection: the handler itself calls pool_manager.get_pool
TestStart(config, bound) ==
    /\ pc[Main] = "loop"
    /\ Runnable(Main)
    /\ arrived < bound
    /\ arrived' = arrived + 1
    /\ req' = [req EXCEPT ![Main] = [kind |-> "test", cfg |-> config]]
    /\ pc' = [pc EXCEPT ![Main] = "gp_lock"]
    /\ UNCHANGED << clockVars, regVars, lock, poolObjs, handle, conn, queue,
                    reaperVars, shutVars, histVars, gwVars >>

\* ------------------------------------------------------------------------
\* /health (pool_count) and /pools, on the event-loop thread
\* ------------------------------------------------------------------------
HealthStart ==
    /\ pc[Main] = "loop"
    /\ Runnable(Main)
    /\ pc' = [pc EXCEPT ![Main] = "hc_lock"]
    /\ UNCHANGED << clockVars, regVars, lock, poolObjs, req, handle, conn, execVars,
                    reaperVars, shutVars, histVars, gwVars >>

\* pool_count: `with self._lock:`
HealthLock ==
    /\ pc[Main] = "hc_lock"
    /\ Runnable(Main)
    /\ LockFree
    /\ lock' = {Main}
    /\ pc' = [pc EXCEPT ![Main] = "hc_in"]
    /\ UNCHANGED << clockVars, regVars, poolObjs, req, handle, conn, execVars,
                    reaperVars, shutVars, histVars, gwVars >>

\* return len(self._pools)
HealthRead ==
    /\ pc[Main] = "hc_in"
    /\ Runnable(Main)
    /\ lock' = lock \ {Main}
    /\ pc' = [pc EXCEPT ![Main] = "loop"]
    /\ UNCHANGED << clockVars, regVars, poolObjs, req, handle, conn, execVars,
                    reaperVars, shutVars, histVars, gwVars >>

ListPoolsStart ==
    /\ pc[Main] = "loop"
    /\ Runnable(Main)
    /\ pc' = [pc EXCEPT ![Main] = "lp_lock"]
    /\ UNCHANGED << clockVars, regVars, lock, poolObjs, req, handle, conn, execVars,
                    reaperVars, shutVars, histVars, gwVars >>

\* `with pool_manager._lock:`
ListPoolsLock ==
    /\ pc[Main] = "lp_lock"
    /\ Runnable(Main)
    /\ LockFree
    /\ lock' = {Main}
    /\ pc' = [pc EXCEPT ![Main] = "lp_in"]
    /\ UNCHANGED << clockVars, regVars, poolObjs, req, handle, conn, execVars,
                    reaperVars, shutVars, histVars, gwVars >>

\* the listing reads _pools and _last_used[key] of every key of _pools
ListPoolsRead ==
    /\ pc[Main] = "lp_in"
    /\ Runnable(Main)
    /\ lock' = lock \ {Main}
    /\ pc' = [pc EXCEPT ![Main] = "loop"]
    /\ UNCHANGED << clockVars, regVars, poolObjs, req, handle, conn, execVars,
                    reaperVars, shutVars, histVars, gwVars >>

\* ------------------------------------------------------------------------
\* PoolManager.close_pool(cp_key)
\* ------------------------------------------------------------------------
\* mutant of ClosePoolResult: no try/except around pool.close(), so a raise
\* skips the two dels and leaves close_pool
ClosePoolResultNoCatch(k, raised) ==
    [ pools |-> IF raised THEN pools ELSE MapDel(pools, k),
      last_used |-> IF raised THEN last_used ELSE MapDel(last_used, k),
      propagated |-> raised ]

\* mutant of ClosePoolResult: `del self._last_used[key]` is missing
ClosePoolResultKeepStamp(k, raised) ==
    [ pools |-> MapDel(pools, k),
      last_used |-> last_used,
      propagated |-> FALSE ]

\* what close_pool leaves of the registry for a present key, given whether
\* pool.close() raised: the exception is caught and logged, the two dels run
ClosePoolResult(k, raised) ==
    [ pools |-> MapDel(pools, k),
      last_used |-> MapDel(last_used, k),
      propagated |-> FALSE ]

ClosePoolLock(at, to) ==
    /\ pc[Main] = at
    /\ Runnable(Main)
    /\ LockFree
    /\ lock' = {Main}
    /\ pc' = [pc EXCEPT ![Main] = to]
    /\ UNCHANGED << clockVars, regVars, poolObjs, req, handle, conn, execVars,
                    reaperVars, shutVars, histVars, gwVars >>

ClosePoolBody(at, to) ==
    /\ pc[Main] = at
    /\ Runnable(Main)
    /\ \/ /\ cp_key \in DOMAIN pools
          /\ \E raised \in BOOLEAN :
               /\ raised \/ CloseCanSucceed(poolObjs, pools[cp_key])
               /\ poolObjs' = PoolClose(poolObjs, pools[cp_key], raised)
               /\ pools' = ClosePoolResult(cp_key, raised).pools
               /\ last_used' = ClosePoolResult(cp_key, raised).last_used
               /\ fault' = (fault \/ ClosePoolResult(cp_key, raised).propagated)
       \/ /\ cp_key \notin DOMAIN pools
          /\ UNCHANGED << poolObjs, pools, last_used, fault >>
    /\ lock' = lock \ {Main}
    /\ cp_key' = << >>
    /\ pc' = [pc EXCEPT ![Main] = to]
    /\ UNCHANGED << clockVars, req, handle, conn, execVars, wake, rp_now,
                    keys_to_close, sig, histVars, gwVars >>

\* ------------------------------------------------------------------------
\* PoolManager.cleanup_idle_pools: one iteration of the loop per wake-up
\* ------------------------------------------------------------------------
\* mutant of IdleKeys: the threshold is built as timedelta(minutes=POOL_TIMEOUT)
IdleKeysMinutes(t0) ==
    { k \in DOMAIN last_used : t0 - last_used[k] > POOL_TIMEOUT * 60 }

\* now - last_used > idle_threshold
IdleKeys(t0) == { k \in DOMAIN last_used : t0 - last_used[k] > POOL_TIMEOUT }

\* sleep(60) is over and the loop runs the task: now = datetime.now()
ReaperWake ==
    /\ pc[Main] = "loop"
    /\ Runnable(Main)
    /\ now >= wake
    /\ rp_now' = now
    /\ pc' = [pc EXCEPT ![Main] = "rp_lock"]
    /\ UNCHANGED << clockVars, regVars, lock, poolObjs, req, handle, conn, execVars,
                    wake, keys_to_close, cp_key, shutVars, histVars, gwVars >>

ReaperScanLock ==
    /\ pc[Main] = "rp_lock"
    /\ Runnable(Main)
    /\ LockFree
    /\ lock' = {Main}
    /\ pc' = [pc EXCEPT ![Main] = "rp_scan"]
    /\ UNCHANGED << clockVars, regVars, poolObjs, req, handle, conn, execVars,
                    reaperVars, shutVars, histVars, gwVars >>

\* the scan under the lock collects the idle keys
ReaperScan ==
    /\ pc[Main] = "rp_scan"
    /\ Runnable(Main)
    /\ keys_to_close' = IdleKeys(rp_now)
    /\ lock' = lock \ {Main}
    /\ pc' = [pc EXCEPT ![Main] = "rp_next"]
    /\ UNCHANGED << clockVars, regVars, poolObjs, req, handle, conn, execVars,
                    wake, rp_now, cp_key, shutVars, histVars, gwVars >>

\* for key in keys_to_close: self.close_pool(key); then sleep again
ReaperNext ==
    /\ pc[Main] = "rp_next"
    /\ Runnable(Main)
    /\ \/ /\ keys_to_close = {}
          /\ wake' = now + CLEANUP_INTERVAL
          /\ rp_now' = 0
          /\ pc' = [pc EXCEPT ![Main] = "loop"]
          /\ UNCHANGED << keys_to_close, cp_key >>
       \/ /\ \E k \in keys_to_close :
               /\ cp_key' = k
               /\ keys_to_close' = keys_to_close \ {k}
          /\ pc' = [pc EXCEPT ![Main] = "cp_lock"]
          /\ UNCHANGED << wake, rp_now >>
    /\ UNCHANGED << clockVars, regVars, lock, poolObjs, req, handle, conn, execVars,
                    shutVars, histVars, gwVars >>

ReaperClosePoolLock == ClosePoolLock("cp_lock", "cp_in")
ReaperClosePoolBody == ClosePoolBody("cp_in", "rp_next")

\* the wall clock
Tick(step, bound) ==
    /\ now + step <= bound
    /\ now' = now + step
    /\ UNCHANGED << regVars, lock, poolObjs, threadVars, execVars, reaperVars,
                    shutVars, histVars, gwVars >>

\* ------------------------------------------------------------------------
\* PoolManager.close_all, handle_shutdown and the atexit hook
\* ------------------------------------------------------------------------
\* mutant of CloseAllResult: the dicts are not cleared after the closes
CloseAllResultNoClear(raisedKeys) ==
    [ objs |-> [p \in DOMAIN poolObjs |->
                  IF \E k \in DOMAIN pools : pools[k] = p
                  THEN PoolClose(poolObjs, p,
                                 \E k \in raisedKeys : pools[k] = p)[p]
                  ELSE poolObjs[p]],
      pools |-> pools,
      last_used |-> last_used,
      propagated |-> FALSE ]

\* what close_all leaves, given the set of keys whose pool.close() raised:
\* every exception is caught and logged, then both dicts are cleared
CloseAllResult(raisedKeys) ==
    [ objs |-> [p \in DOMAIN poolObjs |->
                  IF \E k \in DOMAIN pools : pools[k] = p
                  THEN PoolClose(poolObjs, p,
                                 \E k \in raisedKeys : pools[k] = p)[p]
                  ELSE poolObjs[p]],
      pools |-> EmptyMap,
      last_used |-> EmptyMap,
      propagated |-> FALSE ]

CloseAllBody ==
    \E raisedKeys \in SUBSET DOMAIN pools :
        /\ \A k \in DOMAIN pools :
               k \in raisedKeys \/ CloseCanSucceed(poolObjs, pools[k])
        /\ poolObjs' = CloseAllResult(raisedKeys).objs
        /\ pools' = CloseAllResult(raisedKeys).pools
        /\ last_used' = CloseAllResult(raisedKeys).last_used
        /\ fault' = (fault \/ CloseAllResult(raisedKeys).propagated)

\* SIGTERM / SIGINT: handle_shutdown starts on the main thread, on top of
\* whatever the main thread was doing, and close_all waits for the lock
Signal ==
    /\ sig = "none"
    /\ sig' = "sig_lock"
    /\ UNCHANGED << clockVars, regVars, lock, poolObjs, threadVars, execVars,
                    reaperVars, fault, histVars, gwVars >>

\* handle_shutdown once close_all gets the lock: the pools are closed, the
\* dicts cleared, the lock released, and sys.exit(0) raises SystemExit, which
\* unwinds the main thread out of any `with pool.acquire()` block it was in
HandleShutdown ==
    /\ sig = "sig_lock"
    /\ LockFree
    /\ \E raisedKeys \in SUBSET DOMAIN pools :
          /\ \A k \in DOMAIN pools :
                 k \in raisedKeys \/ CloseCanSucceed(poolObjs, pools[k])
          /\ poolObjs' = IF conn[Main]
                         THEN ReleaseConn(CloseAllResult(raisedKeys).objs,
                                          handle[Main], TRUE)
                         ELSE CloseAllResult(raisedKeys).objs
          /\ pools' = CloseAllResult(raisedKeys).pools
          /\ last_used' = CloseAllResult(raisedKeys).last_used
          /\ fault' = (fault \/ CloseAllResult(raisedKeys).propagated)
    /\ pc' = [pc EXCEPT ![Main] = "exited"]
    /\ req' = [req EXCEPT ![Main] = NoReq]
    /\ handle' = [handle EXCEPT ![Main] = 0]
    /\ conn' = [conn EXCEPT ![Main] = FALSE]
    /\ sig' = "exiting"
    /\ UNCHANGED << clockVars, lock, execVars, reaperVars, histVars, gwVars >>

\* interpreter exit: the executor's threads are joined, then the atexit hook
\* runs pool_manager.close_all
AtExit ==
    /\ sig = "exiting"
    /\ queue = << >>
    /\ \A w \in Workers : pc[w] = "idle"
    /\ LockFree
    /\ CloseAllBody
    /\ sig' = "dead"
    /\ UNCHANGED << clockVars, lock, threadVars, execVars, reaperVars, histVars, gwVars >>

\* ------------------------------------------------------------------------
\* The program
\* ------------------------------------------------------------------------
GetPool == \E t \in Threads : GetPoolLock(t) \/ GetPoolCreate(t) \/ GetPoolTouch(t)
RunStatement == \E t \in Threads : Acquire(t) \/ Execute(t) \/ Fetch(t)
Health == HealthStart \/ HealthLock \/ HealthRead
ListPools == ListPoolsStart \/ ListPoolsLock \/ ListPoolsRead
Reaper ==
    \/ ReaperWake
    \/ ReaperScanLock
    \/ ReaperScan
    \/ ReaperNext
    \/ ReaperClosePoolLock
    \/ ReaperClosePoolBody
Shutdown ==
    \/ Signal
    \/ HandleShutdown
    \/ AtExit

Next ==
    \/ \E c \in Configs : Submit(c, "query", MaxRequests)
    \/ \E c \in Configs : TestStart(c, MaxRequests)
    \/ \E w \in Workers : WorkerStart(w)
    \/ GetPool
    \/ RunStatement
    \/ Reaper
    \/ Tick(ClockStep, MaxTime)
    \/ Shutdown

Spec == Init /\ [][Next]_vars

\* the program while it serves: no shutdown
NextServing ==
    \/ \E c \in Configs : Submit(c, "query", MaxRequests)
    \/ \E c \in Configs : TestStart(c, MaxRequests)
    \/ \E w \in Workers : WorkerStart(w)
    \/ GetPool
    \/ RunStatement
    \/ Reaper
    \/ Tick(ClockStep, MaxTime)

SpecServing == Init /\ [][NextServing]_vars

\* ------------------------------------------------------------------------
\* PoolManager driven as an object: requests call get_pool and use the pools
\* while a caller on the main thread invokes the public method close_pool
\* with any key at any time (the reaper's calls are among these)
\* ------------------------------------------------------------------------
Keys == { PoolKey(c) : c \in Configs }

CallClosePool(k) ==
    /\ pc[Main] = "loop"
    /\ Runnable(Main)
    /\ cp_key' = k
    /\ pc' = [pc EXCEPT ![Main] = "xcp_lock"]
    /\ UNCHANGED << clockVars, regVars, lock, poolObjs, req, handle, conn, execVars,
                    wake, rp_now, keys_to_close, shutVars, histVars, gwVars >>

CalledClosePoolLock == ClosePoolLock("xcp_lock", "xcp_in")
CalledClosePoolBody == ClosePoolBody("xcp_in", "loop")

NextManager ==
    \/ \E c \in Configs : Submit(c, "query", MaxRequests)
    \/ \E c \in Configs : TestStart(c, MaxRequests)
    \/ \E w \in Workers : WorkerStart(w)
    \/ GetPool
    \/ RunStatement
    \/ \E k \in Keys : CallClosePool(k)
    \/ CalledClosePoolLock
    \/ CalledClosePoolBody

SpecManager == Init /\ [][NextManager]_vars

\* ------------------------------------------------------------------------
\* The program under load: more requests than executor threads, one target
\* ------------------------------------------------------------------------
LoadRequests == 6
LoadConfigs == { c \in Configs : c.username = <<"a">> /\ c.connect_string = <<"c">> }

NextLoad ==
    \/ \E c \in LoadConfigs : Submit(c, "query", LoadRequests)
    \/ \E c \in LoadConfigs : Submit(c, "query_dict", LoadRequests)
    \/ \E c \in LoadConfigs : TestStart(c, LoadRequests)
    \/ \E w \in Workers : WorkerStart(w)
    \/ GetPool
    \/ RunStatement

SpecLoad == Init /\ [][NextLoad]_vars

\* ------------------------------------------------------------------------
\* The reaper on schedule: the clock advances in steps of ReaperStep seconds
\* and stops at the end of each sleep(60) until the iteration has run, so the
\* n-th iteration reads datetime.now() = n * CLEANUP_INTERVAL
\* ------------------------------------------------------------------------
ReaperStep == 30
ReaperMaxTime == 240
ReaperRequests == 2

TickToWake(step, bound) ==
    /\ now < wake
    /\ now < bound
    /\ now' = IF now + step > wake THEN wake ELSE now + step
    /\ UNCHANGED << regVars, lock, poolObjs, threadVars, execVars, reaperVars,
                    shutVars, histVars, gwVars >>

NextReaper ==
    \/ \E c \in LoadConfigs : Submit(c, "query", ReaperRequests)
    \/ \E w \in Workers : WorkerStart(w)
    \/ GetPool
    \/ RunStatement
    \/ Reaper
    \/ TickToWake(ReaperStep, ReaperMaxTime)

SpecReaper == Init /\ [][NextReaper]_vars

\* iterations of cleanup_idle_pools completed so far, under SpecReaper
TicksDone == (wake - CLEANUP_INTERVAL) \div CLEANUP_INTERVAL

\* completed iterations whose datetime.now() is later than key k's last use
TicksAfter(k) ==
    Cardinality({ i \in 1 .. TicksDone : i * CLEANUP_INTERVAL > last_used[k] })

\* ------------------------------------------------------------------------
\* The program serving one (username, connect_string) pair with requests
\* that carry different passwords
\* ------------------------------------------------------------------------
PasswordRequests == 2

PasswordConfigs ==
    { c \in ConnectionConfig : c.username = <<"a">> /\ c.connect_string = <<"c">> }

NextPasswords ==
    \/ \E c \in PasswordConfigs : Submit(c, "query", PasswordRequests)
    \/ \E c \in PasswordConfigs : TestStart(c, PasswordRequests)
    \/ \E w \in Workers : WorkerStart(w)
    \/ GetPool
    \/ RunStatement
    \/ Reaper
    \/ Tick(ClockStep, MaxTime)
    \/ Shutdown

SpecPasswords == Init /\ [][NextPasswords]_vars

\* ------------------------------------------------------------------------
\* The program with its read-only endpoints
\* ------------------------------------------------------------------------
NextFull == Next \/ Health \/ ListPools

SpecFull == Init /\ [][NextFull]_vars

\* ------------------------------------------------------------------------
\* The data path of one request: the handler, _execute_query_sync (or the
\* body of test_connection), the statement's result, the timer and the error
\* mapping.  The registry's part of get_pool is modelled above; here the call
\* either returns a pool or raises.
\* ------------------------------------------------------------------------
DEFAULT_MAX_ROWS == 1000

\* rows a statement can yield, and the largest max_rows a request carries
MaxResultRows == 3
\* a slow step of the driver, in microseconds of time.perf_counter()
SlowStep == 15

Durations == {0, SlowStep}

\* Optional[int] values
IntVal(k) == [int |-> k]
MaxRowsValues == {None} \cup { IntVal(k) : k \in 0 .. MaxResultRows }

\* request bodies: the max_rows field may be missing
QueryBodies ==
    { [sql |-> "q"] } \cup { [sql |-> "q", max_rows |-> m] : m \in MaxRowsValues }

\* QueryRequest: max_rows: Optional[int] = 1000
QueryRequest(body) ==
    [ sql |-> body.sql,
      max_rows |-> IF "max_rows" \in DOMAIN body
                   THEN body.max_rows ELSE IntVal(DEFAULT_MAX_ROWS) ]

\* Python truthiness of request.max_rows
Truthy(m) == m # None /\ m.int # 0

\* cursor.description of the statements: None for a statement that returns
\* no rows, else one entry per result column, whose first item is the name
Descriptions ==
    { << >>,
      << <<"ID">> >>,
      << <<"ID">>, <<"NAME">> >>,
      << <<"ID">>, <<"ID">> >> }
NoDescription == << >>

\* the cell the driver returns in row i, column j
Cell(i, j) ==
    IF j = 1 THEN [type |-> "int", value |-> i]
    ELSE IF i = 1 THEN None
    ELSE IF i = 2 THEN [type |-> "datetime", value |-> i]
    ELSE [type |-> "Decimal", value |-> i]

\* the rows the statement yields, as tuples of len(description) cells
DbRows(db) == [ i \in 1 .. db.nrows |-> [ j \in 1 .. Len(db.description) |-> Cell(i, j) ] ]

\* _convert_value
ConvertValue(val) ==
    IF val = None THEN None
    ELSE IF val.type \in {"int", "float", "str", "bool"} THEN val
    ELSE IF val.type = "datetime" THEN [type |-> "str", value |-> <<"isoformat", val.value>>]
    ELSE [type |-> "str", value |-> <<"str", val.value>>]

Min(a, b) == IF a < b THEN a ELSE b

\* `if request.max_rows: rows = cursor.fetchmany(request.max_rows)
\*  else: rows = cursor.fetchall()`
FetchRows(max_rows, all) ==
    IF Truthy(max_rows) THEN SubSeq(all, 1, Min(max_rows.int, Len(all))) ELSE all

\* [col[0] for col in cursor.description] if cursor.description else []
Columns(description) == [ j \in 1 .. Len(description) |-> description[j][1] ]

\* {columns[i]: _convert_value(val) for i, val in enumerate(row)}: a later
\* cell with the same column name replaces the earlier one
RowDict(columns, row) ==
    [ name \in { columns[j] : j \in 1 .. Len(row) } |->
        ConvertValue(row[CHOOSE j \in 1 .. Len(row) :
                            /\ columns[j] = name
                            /\ \A h \in 1 .. Len(row) : columns[h] = name => h <= j]) ]

\* [_convert_value(val) for val in row]
RowList(row) == [ j \in 1 .. Len(row) |-> ConvertValue(row[j]) ]

ResultRows(as_dict, columns, rows) ==
    [ i \in 1 .. Len(rows) |->
        IF as_dict THEN RowDict(columns, rows[i]) ELSE RowList(rows[i]) ]

\* round(elapsed_ms, 2) of a time in microseconds: hundredths of a
\* millisecond, halves to even
Round2(us) ==
    LET q == us \div 10
        r == us % 10
    IN  IF r > 5 \/ (r = 5 /\ q % 2 = 1) THEN q + 1 ELSE q

\* elapsed_ms = (time.perf_counter() - start_time) * 1000, rounded
Elapsed(local, t_end) == Round2(t_end - local.start_time)

\* ------------------------------------------------------------------------
\* Errors
\* ------------------------------------------------------------------------
HintCodes == {1017, 12154, 12170, 12541, 12545, 942, 1031, 3136, 3114}
OtherCodes == {0, 1, 904, 12514}

\* the hints dict
hints ==
    [ c \in HintCodes |->
        CASE c = 1017 -> "Check your username and password."
          [] c = 12154 -> "Verify connection string format: host:port/service_name"
          [] c = 12170 -> "Connection timed out. Check network and firewall."
          [] c = 12541 -> "No listener at specified host:port. Verify the address."
          [] c = 12545 -> "Target host or object does not exist."
          [] c = 942 -> "Table or view does not exist, or you lack permissions."
          [] c = 1031 -> "Insufficient privileges. Contact your DBA."
          [] c = 3136 -> "Query exceeded timeout. Try a simpler query."
          [] c = 3114 -> "Connection to database lost. Check network connectivity." ]

\* first arguments of a driver error: the driver's error object with its
\* code, an object without a code attribute, and a plain message
ErrorObjs ==
    { [code |-> c, message |-> "ORA"] : c \in HintCodes \cup OtherCodes }
      \cup { [message |-> "DPY"], [message |-> ""] }

\* oracledb.Error instances, by their args; str(e) is the message
DriverErrors ==
    { [kind |-> "driver", args |-> << >>, message |-> ""] }
      \cup { [kind |-> "driver", args |-> << o >>, message |-> o.message] : o \in ErrorObjs }
OtherErrors == { [kind |-> "other", args |-> << "boom" >>, message |-> "boom"] }

\* the fetch of a statement that returns no rows raises a driver error
\* without an ORA code
NotAQuery == [kind |-> "driver", args |-> << [message |-> "DPY"] >>, message |-> "DPY"]

\* truthiness of e.args[0]
TruthyObj(o) == "code" \in DOMAIN o \/ o.message # ""

\* error_obj = e.args[0] if e.args else None
\* code = getattr(error_obj, 'code', 0) if error_obj else 0
ErrorCode(e) ==
    LET error_obj == IF e.args # << >> THEN e.args[1] ELSE None
    IN  IF error_obj # None /\ TruthyObj(error_obj)
        THEN (IF "code" \in DOMAIN error_obj THEN error_obj.code ELSE 0)
        ELSE 0

\* mutant of Hint: the table lacks the entry for 3114
HintWithout3114(code) ==
    IF code \in DOMAIN hints \ {3114} THEN [str |-> hints[code]] ELSE None

\* hints.get(code)
Hint(code) == IF code \in DOMAIN hints THEN [str |-> hints[code]] ELSE None

oracle_error_to_response(e) ==
    [ code |-> ErrorCode(e), message |-> e.message, hint |-> Hint(ErrorCode(e)) ]

\* mutant of HandlerError: the handlers catch oracledb.Error only
HandlerErrorDriverOnly(e) ==
    IF e.kind = "driver"
    THEN [status |-> 400, detail |-> oracle_error_to_response(e)]
    ELSE [status |-> 500, detail |-> [text |-> "Internal Server Error"]]

\* except oracledb.Error -> HTTPException(400, detail=error.model_dump())
\* except Exception      -> HTTPException(500, detail={"code": 0, "message": str(e)})
HandlerError(e) ==
    IF e.kind = "driver"
    THEN [status |-> 400, detail |-> oracle_error_to_response(e)]
    ELSE [status |-> 500, detail |-> [code |-> 0, message |-> e.message]]

\* ------------------------------------------------------------------------
\* One request through its handler
\* ------------------------------------------------------------------------
sidecarVars == << clockVars, regVars, lock, poolObjs, threadVars, execVars,
                  reaperVars, shutVars, histVars >>

Statements ==
    { [description |-> d, nrows |-> n] : d \in Descriptions, n \in 0 .. MaxResultRows }

\* "SELECT 1 FROM DUAL"
SelectOne == [description |-> << <<"1">> >>, nrows |-> 1]

Exceptions == DriverErrors \cup OtherErrors

\* POST /query or /query-dict arrives: the body is parsed into a QueryRequest
\* and _execute_query_sync is handed to the executor
GwReceiveQuery(endpoint, body, db) ==
    /\ gw_pc = "idle"
    /\ gw_req' = [endpoint |-> endpoint, as_dict |-> endpoint = "query_dict",
                  request |-> QueryRequest(body)]
    /\ gw_db' = db
    /\ perf_counter' = 0
    /\ gw_local' = None
    /\ gw_exc' = None
    /\ response' = None
    /\ gw_pc' = "start"
    /\ UNCHANGED sidecarVars

\* POST /test-connection arrives
GwReceiveTest ==
    /\ gw_pc = "idle"
    /\ gw_req' = [endpoint |-> "test"]
    /\ gw_db' = SelectOne
    /\ perf_counter' = 0
    /\ gw_local' = None
    /\ gw_exc' = None
    /\ response' = None
    /\ gw_pc' = "get_pool"
    /\ UNCHANGED sidecarVars

\* start_time = time.perf_counter()
GwStart ==
    /\ gw_pc = "start"
    /\ gw_local' = [start_time |-> perf_counter, acquired_at |-> perf_counter]
    /\ gw_pc' = "get_pool"
    /\ UNCHANGED << sidecarVars, gw_req, gw_db, perf_counter, gw_exc, response >>

\* a step of the body that takes d microseconds and then goes on or raises
GwStep(at, to, d) ==
    /\ gw_pc = at
    /\ perf_counter' = perf_counter + d
    /\ \/ /\ gw_pc' = to
          /\ UNCHANGED gw_exc
       \/ /\ \E e \in Exceptions : gw_exc' = e
          /\ gw_pc' = "raised"
    /\ UNCHANGED << sidecarVars, gw_req, gw_db, response >>

\* pool = pool_manager.get_pool(...): the wait for the lock and create_pool
GwGetPool(d) ==
    /\ GwStep("get_pool", "acquire", d)
    /\ UNCHANGED gw_local

\* with pool.acquire() as conn: the wait for a free connection
GwAcquire(d) ==
    /\ GwStep("acquire", "execute", d)
    /\ gw_local' = IF gw_local = None THEN None
                   ELSE [gw_local EXCEPT !.acquired_at = perf_counter']

\* cursor.execute(...)
GwExecute(d) ==
    /\ GwStep("execute", "fetch", d)
    /\ UNCHANGED gw_local

\* the result of _execute_query_sync, built at time t_end
QueryResult(request_, as_dict, db, local, t_end) ==
    LET columns == Columns(db.description)
        rows == FetchRows(request_.max_rows, DbRows(db))
        result_rows == ResultRows(as_dict, columns, rows)
    IN  [ columns |-> columns,
          rows |-> result_rows,
          row_count |-> Len(result_rows),
          execution_time_ms |-> Elapsed(local, t_end) ]

\* the fetch, the conversion and the return of _execute_query_sync
GwFetch(d) ==
    /\ gw_pc = "fetch"
    /\ gw_req.endpoint # "test"
    /\ perf_counter' = perf_counter + d
    /\ \/ /\ gw_db.description # NoDescription
          /\ gw_local' = [ start_time |-> gw_local.start_time,
                           acquired_at |-> gw_local.acquired_at,
                           result |-> QueryResult(gw_req.request, gw_req.as_dict,
                                                  gw_db, gw_local, perf_counter') ]
          /\ gw_pc' = "returned"
          /\ UNCHANGED gw_exc
       \/ /\ \E e \in IF gw_db.description = NoDescription
                     THEN {NotAQuery} ELSE Exceptions : gw_exc' = e
          /\ gw_pc' = "raised"
          /\ UNCHANGED gw_local
    /\ UNCHANGED << sidecarVars, gw_req, gw_db, response >>

\* cursor.fetchone() in test_connection
GwFetchOne(d) ==
    /\ gw_pc = "fetch"
    /\ gw_req.endpoint = "test"
    /\ GwStep("fetch", "returned", d)
    /\ UNCHANGED gw_local

\* the handler returns the result or maps the exception to an HTTPException
GwRespond ==
    /\ gw_pc \in {"returned", "raised"}
    /\ response' =
          IF gw_pc = "raised" THEN HandlerError(gw_exc)
          ELSE IF gw_req.endpoint = "test"
               THEN [status |-> 200,
                     body |-> [success |-> TRUE, message |-> "Connection successful"]]
               ELSE [status |-> 200,
                     body |-> [ columns |-> gw_local.result.columns,
                                rows |-> gw_local.result.rows,
                                row_count |-> gw_local.result.row_count,
                                execution_time_ms |-> gw_local.result.execution_time_ms ]]
    /\ gw_pc' = "done"
    /\ UNCHANGED << sidecarVars, gw_req, gw_db, perf_counter, gw_local, gw_exc >>

\* the response is sent; the next request can come
GwSent ==
    /\ gw_pc = "done"
    /\ gw_pc' = "idle"
    /\ gw_req' = None
    /\ gw_db' = None
    /\ perf_counter' = 0
    /\ gw_local' = None
    /\ gw_exc' = None
    /\ response' = None
    /\ UNCHANGED sidecarVars

NextGateway ==
    \/ \E ep \in {"query", "query_dict"}, body \in QueryBodies, db \in Statements :
          GwReceiveQuery(ep, body, db)
    \/ GwReceiveTest
    \/ GwStart
    \/ \E d \in Durations : GwGetPool(d)
    \/ \E d \in Durations : GwAcquire(d)
    \/ \E d \in Durations : GwExecute(d)
    \/ \E d \in Durations : GwFetch(d)
    \/ \E d \in Durations : GwFetchOne(d)
    \/ GwRespond
    \/ GwSent

SpecGateway == Init /\ [][NextGateway]_vars

\* ========================================================================
\* Properties
\* ========================================================================
Holders == { t \in Threads : handle[t] # 0 }
Unclosed(p) == poolObjs[p].closeCalls = 0

\* thread t's get_pool call returns in this step
Returns(t) == pc[t] = "gp_touch" /\ pc'[t] = "acquire"

\* thread t makes a driver call on its pool in this step
DriverCallStep(t) ==
    /\ pc[t] \in {"acquire", "execute", "fetch"}
    /\ pc'[t] # pc[t]
    /\ t = Main => sig = "none"

\* pcs at which a thread is inside a blocking driver operation
StatementPcs == {"acquire", "execute", "fetch"}
BlockingPcs == {"gp_create"} \cup StatementPcs

\* C1: the registry holds at most one pool per connection identity: a pool
\* object on which close() was never called is the one registered under its
\* key (so create_pool ran once for the entry), and every thread that got a
\* still unclosed pool from get_pool got the registered pool of its key.
C1_OnePoolPerIdentity ==
    /\ \A p \in PoolIds :
          Unclosed(p) <=>
             (poolObjs[p].key \in DOMAIN pools /\ pools[poolObjs[p].key] = p)
    /\ \A t \in Holders :
          /\ poolObjs[handle[t]].key = KeyOf(t)
          /\ Unclosed(handle[t]) => pools[KeyOf(t)] = handle[t]

\* C1 witness: the event-loop thread and a worker hold the same pool, the
\* only one ever created
C1_Witness ==
    \E w \in Workers :
        /\ handle[Main] # 0
        /\ handle[w] = handle[Main]
        /\ Len(poolObjs) = 1

\* C2: no acquire, execute, fetch or release is made on a pool whose
\* close() has already been called.
C2_NoUseAfterClose ==
    [][\A t \in Threads : DriverCallStep(t) => Unclosed(handle[t])]_vars

\* C3 as stated: whatever ran in between while the program serves, a
\* get_pool call for a (username, connect_string) pair that get_pool already
\* served returns the same pool instance, with pool_count as it was after the
\* earlier call.
C3_SamePoolAlways ==
    [][\A t \in Threads :
          (Returns(t) /\ PairOf(t) \in DOMAIN lastRet /\ sig = "none") =>
             /\ handle'[t] = lastRet[PairOf(t)].pool
             /\ Cardinality(DOMAIN pools') = lastRet[PairOf(t)].count]_vars

\* C3 amended: as long as close() has not been called on the pool the earlier
\* call returned, a later call for the same pair does not go through
\* create_pool, returns that same instance and leaves pool_count unchanged.
C3_SamePoolWhileOpen ==
    [][\A t \in Threads :
          (/\ req[t] # NoReq
           /\ PairOf(t) \in DOMAIN lastRet
           /\ Unclosed(lastRet[PairOf(t)].pool)) =>
             /\ pc[t] # "gp_create"
             /\ Returns(t) =>
                   /\ handle'[t] = lastRet[PairOf(t)].pool
                   /\ Cardinality(DOMAIN pools') = pool_count]_vars

\* C3 witness: two requests with the same pair hold the same pool
C3_Witness ==
    \E t, u \in Threads :
        /\ t # u
        /\ handle[t] # 0
        /\ handle[u] = handle[t]
        /\ PairOf(t) = PairOf(u)
        /\ Unclosed(handle[t])

\* C4: with no close so far, once get_pool has returned for requests whose
\* (username, connect_string) pairs are pairwise distinct (here: every request
\* received so far, starting from the empty registry), pool_count equals the
\* number of those pairs.
C4_CountPerDistinctPair ==
    (/\ \A p \in PoolIds : Unclosed(p)
     /\ Cardinality(Holders) = arrived
     /\ \A t, u \in Holders : t # u => PairOf(t) # PairOf(u))
    => pool_count = Cardinality(Holders)

\* C5: a reaper tick leaves no pool that was idle beyond the timeout at its
\* scan, and the reaper closes no pool whose last use is within the timeout
\* at the moment of the close.
C5_ReaperClosesExactlyIdle ==
    [][/\ (pc[Main] = "rp_next" /\ pc'[Main] = "loop") =>
             \A k \in DOMAIN last_used : ~(rp_now - last_used[k] > POOL_TIMEOUT)
       /\ (pc[Main] = "cp_in" /\ pc'[Main] # "cp_in") =>
             \A k \in DOMAIN pools \ DOMAIN pools' :
                 now - last_used[k] > POOL_TIMEOUT]_vars

\* C6: connection acquisition, statement execution and fetch never run on the
\* event-loop thread.
C6_DriverCallsOnWorkersOnly ==
    \A t \in Threads : pc[t] \in StatementPcs => t \in Workers

\* C7: at most MAX_WORKERS blocking driver operations are in flight.
C7_InFlightBounded ==
    Cardinality({ t \in Threads : pc[t] \in BlockingPcs }) <= MAX_WORKERS

\* C8: a close_pool call ends with its key in neither dict, whether or not
\* pool.close() raised, lets no exception out, leaves the other entries alone,
\* and changes nothing when the key was absent.
C8_ClosePoolRemoves ==
    [][(pc[Main] \in {"cp_in", "xcp_in"} /\ pc'[Main] # pc[Main]) =>
          /\ cp_key \notin DOMAIN pools'
          /\ cp_key \notin DOMAIN last_used'
          /\ fault' = fault
          /\ lock' = {}
          /\ \A k \in DOMAIN pools \ {cp_key} :
                k \in DOMAIN pools' /\ pools'[k] = pools[k]
          /\ \A k \in DOMAIN last_used \ {cp_key} :
                k \in DOMAIN last_used' /\ last_used'[k] = last_used[k]
          /\ cp_key \notin DOMAIN pools =>
                UNCHANGED << pools, last_used, poolObjs >>]_vars

\* C8 witness: close_pool has removed a pool whose close() raised
C8_Witness ==
    \E p \in PoolIds :
        /\ poolObjs[p].closeCalls = 1
        /\ poolObjs[p].open
        /\ poolObjs[p].key \notin DOMAIN pools
        /\ poolObjs[p].key \notin DOMAIN last_used
        /\ pc[Main] = "loop"

\* C9: close_all twice (signal handler, then atexit) lets no exception out,
\* calls close() at most once on each pool, and leaves pool_count = 0.
C9_CloseAllIdempotent ==
    /\ \A p \in PoolIds : poolObjs[p].closeCalls <= 1
    /\ ~fault
    /\ sig = "dead" => (pool_count = 0 /\ DOMAIN last_used = {})

\* C9 witness: both close_all calls are over, two pools were closed and one
\* of the closes raised
C9_Witness ==
    /\ sig = "dead"
    /\ Len(poolObjs) >= 2
    /\ \E p \in PoolIds : poolObjs[p].closeCalls = 1 /\ poolObjs[p].open
    /\ \E p \in PoolIds : poolObjs[p].closeCalls = 1 /\ ~poolObjs[p].open

\* C10: a pool's checked-out count is exactly the number of threads inside
\* `with pool.acquire()` on it, so every connection is back once its
\* operation has ended and none is out when no request is running.
C10_ConnectionsReleased ==
    /\ \A t \in Threads : conn[t] => (handle[t] # 0 /\ pc[t] \in {"execute", "fetch"})
    /\ \A p \in PoolIds :
          poolObjs[p].busy = Cardinality({ t \in Threads : conn[t] /\ handle[t] = p })
    /\ (\A t \in Threads : req[t] = NoReq) =>
          \A p \in PoolIds : poolObjs[p].busy = 0

\* C10 witness: every other request has ended and one thread is still inside
\* `with pool.acquire()`, on a pool whose close() was called (and raised)
\* meanwhile
C10_Witness ==
    \E t \in Threads :
        /\ conn[t]
        /\ poolObjs[handle[t]].busy = 1
        /\ poolObjs[handle[t]].closeCalls = 1
        /\ arrived = MaxRequests
        /\ \A u \in Threads \ {t} : req[u] = NoReq
        /\ queue = << >>

\* thread t's create_pool call raises in this step
CreateRaises(t) == pc[t] = "gp_create" /\ pc'[t] \notin {"gp_create", "gp_touch"}

\* pcs at which the event-loop thread waits for PoolManager._lock in
\* pool_count, list_pools, cleanup_idle_pools and close_pool
MainLockPcs == {"hc_lock", "lp_lock", "rp_lock", "cp_lock", "xcp_lock"}

\* C13: a get_pool call that returns a pool leaves the key's timestamp at the
\* current time, whether the pool was created by the call or existed; and a
\* step that gives a key a timestamp or changes the one it has is the return
\* of a get_pool call for that key (the closes only remove timestamps).
C13_GetPoolRefreshes ==
    [][/\ \A t \in Threads :
             Returns(t) =>
                /\ KeyOf(t) \in DOMAIN last_used'
                /\ last_used'[KeyOf(t)] = now
                /\ handle'[t] = pools[KeyOf(t)]
       /\ \A k \in DOMAIN last_used' :
             (k \notin DOMAIN last_used \/ last_used'[k] # last_used[k]) =>
                \E t \in Threads :
                    Returns(t) /\ KeyOf(t) = k /\ last_used'[k] = now]_vars

\* C13 witness: the only pool ever created was idle at the reaper's scan and
\* has since been returned by get_pool again, which set its timestamp to the
\* current time
C13_Witness ==
    /\ Len(poolObjs) = 1
    /\ cp_key \in DOMAIN last_used
    /\ now > POOL_TIMEOUT
    /\ last_used[cp_key] = now
    /\ \E t \in Holders : KeyOf(t) = cp_key

\* C16: the event-loop thread never waits for the registry lock while a
\* worker holds it inside create_pool.
C16_LoopNeverWaitsOnCreate ==
    ~(/\ pc[Main] \in MainLockPcs
      /\ sig = "none"
      /\ \E w \in Workers : lock = {w} /\ pc[w] = "gp_create")

\* C19: whenever the lock is free, and whenever pool_count or /pools read
\* the dicts, _pools and _last_used have the same keys.
C19_SameKeys ==
    (lock = {} \/ pc[Main] \in {"hc_in", "lp_in"}) =>
        DOMAIN pools = DOMAIN last_used

\* C19 witness: /pools reads the dicts after one pool was closed and removed
\* and while another is registered
C19_Witness ==
    /\ pc[Main] = "lp_in"
    /\ pool_count = 1
    /\ \E p \in PoolIds : ~Unclosed(p)

\* C20: when create_pool raises inside get_pool, both dicts are as before
\* the call, with no entry and no timestamp for the key, the lock is
\* released, and the next get_pool for a key without an entry goes to
\* create_pool again.
C20_FailedCreateLeavesNothing ==
    [][\A t \in Threads :
          /\ CreateRaises(t) =>
                /\ UNCHANGED << pools, last_used, poolObjs >>
                /\ KeyOf(t) \notin DOMAIN pools'
                /\ KeyOf(t) \notin DOMAIN last_used'
                /\ lock' = {}
          /\ (pc[t] = "gp_lock" /\ lock' = {t}
                /\ KeyOf(t) \notin DOMAIN last_used) =>
                pc'[t] = "gp_create"]_vars

\* C20 witness: one request has ended in create_pool (no pool was ever
\* created), and a later get_pool is inside create_pool
C20_Witness ==
    /\ Len(poolObjs) = 0
    /\ arrived = 2
    /\ queue = << >>
    /\ sig = "none"
    /\ \E t \in Threads :
          /\ pc[t] = "gp_create"
          /\ \A u \in Threads \ {t} : req[u] = NoReq


\* C17 as stated: once two reaper ticks have followed a pool's last use, with
\* ticks 60 s apart, the pool is absent from the registry.
C17_AbsentAfterSecondTick ==
    \A k \in DOMAIN pools \cap DOMAIN last_used : TicksAfter(k) < 2

\* C17 amended: once three reaper ticks have followed a pool's last use, the
\* pool is absent from the registry.
C17_AbsentAfterThirdTick ==
    \A k \in DOMAIN pools \cap DOMAIN last_used : TicksAfter(k) < 3

\* C17 witness: the reaper has closed and removed the only pool at its fourth
\* tick, the third after a last use that followed the first tick
C17_Witness ==
    /\ TicksDone = 4
    /\ pc[Main] = "loop"
    /\ Len(poolObjs) = 1
    /\ poolObjs[1].closeCalls = 1
    /\ pool_count = 0
    /\ arrived = ReaperRequests

\* the request followed on the data path got a result (HTTP 200)
GwSucceeded == gw_pc = "done" /\ gw_exc = None
GwQuerySucceeded == GwSucceeded /\ gw_req.endpoint # "test"

\* C11: with max_rows = k and a full result of n > k rows, the response has
\* exactly k rows and row_count = k, for every k >= 0.
C11_MaxRowsLimits ==
    (/\ GwQuerySucceeded
     /\ gw_req.request.max_rows # None
     /\ gw_db.nrows > gw_req.request.max_rows.int) =>
        /\ Len(response.body.rows) = gw_req.request.max_rows.int
        /\ response.body.row_count = gw_req.request.max_rows.int

\* C12: in every result of /query and /query-dict each row has as many cells
\* as there are columns.
C12_RowArityIsColumns ==
    GwQuerySucceeded =>
        \A i \in 1 .. Len(response.body.rows) :
            Cardinality(DOMAIN response.body.rows[i]) = Len(response.body.columns)

\* C14: a request that ended in a driver error gets HTTP 400 with the
\* classifier's code, message and hint; one that ended in any other exception
\* gets HTTP 500 with code 0 and the message.
C14_FailuresAreStructured ==
    (gw_pc = "done" /\ gw_exc # None) =>
        IF gw_exc.kind = "driver"
        THEN /\ response.status = 400
             /\ DOMAIN response.detail = {"code", "message", "hint"}
             /\ response.detail.message = gw_exc.message
             /\ response.detail.code \in HintCodes <=> response.detail.hint # None
        ELSE /\ response.status = 500
             /\ DOMAIN response.detail = {"code", "message"}
             /\ response.detail.code = 0
             /\ response.detail.message = gw_exc.message

\* C14 witness: /test-connection ended in an exception that is not a driver
\* error
C14_Witness ==
    /\ gw_pc = "done"
    /\ gw_req.endpoint = "test"
    /\ gw_exc \in OtherErrors
    /\ response.status = 500

\* C15: the classifier's hint is non-null exactly for the codes 1017, 12154,
\* 12170, 12541, 12545, 942, 1031, 3136 and 3114, and its code is the code the
\* driver reported, or 0 when the error has no arguments or its first
\* argument has no code.
C15_ClassifierTable ==
    (gw_pc = "done" /\ gw_exc # None /\ gw_exc.kind = "driver") =>
        LET reported == IF gw_exc.args # << >> /\ "code" \in DOMAIN gw_exc.args[1]
                        THEN gw_exc.args[1].code ELSE 0
        IN  /\ response.detail.code = reported
            /\ reported \in {1017, 12154, 12170, 12541, 12545, 942, 1031, 3136, 3114}
                  => response.detail.hint # None
            /\ reported \notin {1017, 12154, 12170, 12541, 12545, 942, 1031, 3136, 3114}
                  => response.detail.hint = None

\* C15 witness: a driver error with code 3114 was classified
C15_Witness ==
    /\ gw_pc = "done"
    /\ gw_exc # None
    /\ gw_exc.kind = "driver"
    /\ gw_exc.args # << >>
    /\ "code" \in DOMAIN gw_exc.args[1]
    /\ gw_exc.args[1].code = 3114
    /\ response.detail.hint # None

\* C18: execution_time_ms is the time from the moment the connection was
\* acquired to the end of the fetch.
C18_TimerStartsAfterAcquire ==
    GwQuerySucceeded =>
        response.body.execution_time_ms
            = Round2(perf_counter - gw_local.acquired_at)

\* "<username>@<connect_string>" of the request thread t serves
IdentityOf(t) == req[t].cfg.username \o <<"@">> \o req[t].cfg.connect_string

\* C21: get_pool creates a pool only when "<username>@<connect_string>" has
\* no entry, from the password of the request that creates it; while the
\* entry exists, a request with that username and connect_string creates
\* nothing and is returned the registered pool, unchanged, which is the pool
\* every other request for the pair holds if close() was not called on it.
C21_PasswordNotInKey ==
    [][\A t \in Threads :
          /\ (pc[t] = "gp_lock" /\ lock' = {t} /\ IdentityOf(t) \in DOMAIN pools) =>
                pc'[t] = "gp_touch"
          /\ (pc[t] = "gp_create" /\ pc'[t] = "gp_touch") =>
                /\ IdentityOf(t) \notin DOMAIN pools
                /\ IdentityOf(t) \in DOMAIN pools'
                /\ poolObjs'[pools'[IdentityOf(t)]].password = req[t].cfg.password
          /\ Returns(t) =>
                /\ IdentityOf(t) \in DOMAIN pools
                /\ handle'[t] = pools[IdentityOf(t)]
                /\ poolObjs'[handle'[t]] = poolObjs[handle'[t]]
                /\ \A u \in Holders :
                      (IdentityOf(u) = IdentityOf(t) /\ Unclosed(handle[u])) =>
                          handle'[t] = handle[u]]_vars

\* C21 witness: a request that carries one password holds the registered
\* pool, which was built from another password
C21_Witness ==
    \E t \in Holders :
        /\ Unclosed(handle[t])
        /\ pools[IdentityOf(t)] = handle[t]
        /\ poolObjs[handle[t]].password # req[t].cfg.password

\* C22: a shutdown handler that waits for the registry lock is never waiting
\* for a lock held by the main thread it interrupted (which cannot run again
\* until the handler returns).
C22_HandlerNeverWaitsOnItself ==
    ~(sig = "sig_lock" /\ Main \in lock)

====
